---- MODULE Spec2Model ----
(***************************************************************************)
(* A model of the wazero engine of wapc-go (engines/wazero/wazero.go):     *)
(* the Module / Instance lifecycle, Instance.Invoke and the nine host      *)
(* imports of the "wapc" module, acting on a guest's linear memory and on  *)
(* the invokeContext bound to the call's context.Context.                  *)
(*                                                                         *)
(* Text and byte slices are sequences of bytes.  A Go slice that may be    *)
(* nil is a record [isNil, b]; a slice returned by api.Memory.Read is a    *)
(* view of the linear memory, [isNil, view, ptr, len], whose bytes are     *)
(* those of the memory at the moment it is looked at.                      *)
(***************************************************************************)
EXTENDS Integers, Sequences, FiniteSets, TLC

\* ---------------------------------------------------------------- bounds
MemSize == 3        \* bytes of a guest's linear memory
MaxLen == 2         \* longest length a guest passes to an import
MaxByte == 1        \* bytes are 0..MaxByte
MaxHostCalls == 2   \* handler invocations counted per Invoke
MaxInstantiate == 3 \* Instantiate calls that pass the closed check, one caller
MaxShared == 2      \* the same, when two callers share the module

Byte == 0..MaxByte
Addr == 0..(MemSize - 1)
Goroutines == {1, 2}
Ptrs == {1, 2}           \* addresses of invokeContext values (one per running Invoke)
NilPtr == 0
NoRet == -1              \* an import without a result

\* ------------------------------------------------------- slices and text
NilSlice == [isNil |-> TRUE, view |-> FALSE, b |-> <<>>, ptr |-> 0, len |-> 0]
Slice(s) == [isNil |-> FALSE, view |-> FALSE, b |-> s, ptr |-> 0, len |-> 0]
MemView(ptr, n) == [isNil |-> FALSE, view |-> TRUE, b |-> <<>>, ptr |-> ptr, len |-> n]

NilError == [isNil |-> TRUE, text |-> <<>>]
ErrorOf(text) == [isNil |-> FALSE, text |-> text]

\* The bytes mem[ptr .. ptr+n-1].
MemBytes(memv, ptr, n) == [k \in 1..n |-> memv[ptr + k - 1]]

\* The bytes of a slice, a view being read through to the memory.
Bytes(memv, s) == IF s.view THEN MemBytes(memv, s.ptr, s.len) ELSE s.b

\* api.Memory.Read: a view of [offset, offset+byteCount), or not ok.
MemRead(memv, offset, byteCount) ==
    IF offset + byteCount <= MemSize
    THEN [ok |-> TRUE, buf |-> MemView(offset, byteCount)]
    ELSE [ok |-> FALSE, buf |-> NilSlice]

\* api.Memory.Write: copies val to offset when it fits, else writes nothing
\* and reports false, which no caller in wazero.go looks at.
MemWrite(memv, offset, val) ==
    IF offset + Len(val) <= MemSize
    THEN [a \in Addr |-> IF a >= offset /\ a < offset + Len(val)
                         THEN val[a - offset + 1] ELSE memv[a]]
    ELSE memv

\* requireRead: the view, or a panic naming the field.
requireRead(memv, fieldName, offset, byteCount) ==
    LET r == MemRead(memv, offset, byteCount)
    IN  IF r.ok THEN [panic |-> FALSE, buf |-> r.buf, field |-> fieldName]
        ELSE [panic |-> TRUE, buf |-> NilSlice, field |-> fieldName]

\* requireReadString: string(requireRead(...)), a copy of the bytes.
requireReadString(memv, fieldName, offset, byteCount) ==
    LET r == requireRead(memv, fieldName, offset, byteCount)
    IN  [panic |-> r.panic, field |-> fieldName,
         str |-> IF r.panic THEN <<>> ELSE Bytes(memv, r.buf)]

\* ------------------------------------------------------ invokeContext
ZeroIc == [operation |-> <<>>, guestReq |-> NilSlice, guestResp |-> NilSlice,
           guestErr |-> <<>>, hostResp |-> NilSlice, hostErr |-> NilError]

\* A variant that starts an Invoke with a guest error already in place.
NewIcStale(operation, payload) ==
    [ZeroIc EXCEPT !.operation = operation, !.guestReq = payload, !.guestErr = <<1>>]
\* invokeContext{operation: operation, guestReq: payload}
NewIc(operation, payload) ==
    [ZeroIc EXCEPT !.operation = operation, !.guestReq = payload]

\* context.Background(): no invokeContext value.
PlainCtx == [ic |-> NilPtr]

\* A variant that keeps the invokeContext in one slot shared by every call.
newInvokeContextShared(c, p) == [c EXCEPT !.ic = 1]
\* newInvokeContext: context.WithValue(ctx, invokeContextKey{}, ic)
newInvokeContext(c, p) == [c EXCEPT !.ic = p]

\* A variant that hands out a default invokeContext when none is bound.
fromInvokeContextDefault(c) == IF c.ic = NilPtr THEN 1 ELSE c.ic
\* fromInvokeContext: the bound invokeContext, or nil.
fromInvokeContext(c) == c.ic

\* What one run of an import leaves: the invokeContext heap, the memory, the
\* result (NoRet for none), whether it panicked, and the callbacks it made.
Done(h, memv, ret, calls) ==
    [h |-> h, mem |-> memv, ret |-> ret, panic |-> FALSE, field |-> "", calls |-> calls]
Panicked(h, memv, fieldName) ==
    [h |-> h, mem |-> memv, ret |-> NoRet, panic |-> TRUE, field |-> fieldName, calls |-> <<>>]
\* ------------------------------------------------------- the host imports
\* w is the wapcHost (callHandler and logger: TRUE when not nil), h the heap
\* of invokeContexts, c the context.Context of the call, memv the memory of
\* the calling instance, stack the i32 parameters.

\* A variant that leaves an earlier host error in place when the handler succeeds.
hostCallKeepsError(w, h, c, memv, stack, hr) ==
    LET ic == fromInvokeContext(c)
    IN  IF ic = NilPtr \/ ~w.callHandler
        THEN Done(h, memv, 0, <<>>)
        ELSE
          LET binding == requireReadString(memv, "binding", stack[1], stack[2])
              namespace == requireReadString(memv, "namespace", stack[3], stack[4])
              operation == requireReadString(memv, "operation", stack[5], stack[6])
              payload == requireRead(memv, "payload", stack[7], stack[8])
          IN  IF binding.panic THEN Panicked(h, memv, "binding")
              ELSE IF namespace.panic THEN Panicked(h, memv, "namespace")
              ELSE IF operation.panic THEN Panicked(h, memv, "operation")
              ELSE IF payload.panic THEN Panicked(h, memv, "payload")
              ELSE Done([h EXCEPT ![ic].hostResp = hr.resp,
                                  ![ic].hostErr = IF hr.err.isNil THEN @ ELSE hr.err],
                        memv,
                        IF ~hr.err.isNil THEN 0 ELSE 1,
                        << [fn |-> "callHandler", binding |-> binding.str,
                            namespace |-> namespace.str, operation |-> operation.str,
                            payload |-> Bytes(memv, payload.buf),
                            resp |-> hr.resp, err |-> hr.err] >>)

\* A variant that passes the namespace as binding and the binding as namespace.
hostCallSwapped(w, h, c, memv, stack, hr) ==
    LET ic == fromInvokeContext(c)
    IN  IF ic = NilPtr \/ ~w.callHandler
        THEN Done(h, memv, 0, <<>>)
        ELSE
          LET binding == requireReadString(memv, "binding", stack[1], stack[2])
              namespace == requireReadString(memv, "namespace", stack[3], stack[4])
              operation == requireReadString(memv, "operation", stack[5], stack[6])
              payload == requireRead(memv, "payload", stack[7], stack[8])
          IN  IF binding.panic THEN Panicked(h, memv, "binding")
              ELSE IF namespace.panic THEN Panicked(h, memv, "namespace")
              ELSE IF operation.panic THEN Panicked(h, memv, "operation")
              ELSE IF payload.panic THEN Panicked(h, memv, "payload")
              ELSE Done([h EXCEPT ![ic].hostResp = hr.resp, ![ic].hostErr = hr.err],
                        memv,
                        IF ~hr.err.isNil THEN 0 ELSE 1,
                        << [fn |-> "callHandler", binding |-> namespace.str,
                            namespace |-> binding.str, operation |-> operation.str,
                            payload |-> Bytes(memv, payload.buf),
                            resp |-> hr.resp, err |-> hr.err] >>)

\* __host_call; hr is what w.callHandler returns when it is called.
hostCall(w, h, c, memv, stack, hr) ==
    LET ic == fromInvokeContext(c)
    IN  IF ic = NilPtr \/ ~w.callHandler
        THEN Done(h, memv, 0, <<>>)
        ELSE
          LET binding == requireReadString(memv, "binding", stack[1], stack[2])
              namespace == requireReadString(memv, "namespace", stack[3], stack[4])
              operation == requireReadString(memv, "operation", stack[5], stack[6])
              payload == requireRead(memv, "payload", stack[7], stack[8])
          IN  IF binding.panic THEN Panicked(h, memv, "binding")
              ELSE IF namespace.panic THEN Panicked(h, memv, "namespace")
              ELSE IF operation.panic THEN Panicked(h, memv, "operation")
              ELSE IF payload.panic THEN Panicked(h, memv, "payload")
              ELSE Done([h EXCEPT ![ic].hostResp = hr.resp, ![ic].hostErr = hr.err],
                        memv,
                        IF ~hr.err.isNil THEN 0 ELSE 1,
                        << [fn |-> "callHandler", binding |-> binding.str,
                            namespace |-> namespace.str, operation |-> operation.str,
                            payload |-> Bytes(memv, payload.buf),
                            resp |-> hr.resp, err |-> hr.err] >>)

\* __console_log
consoleLog(w, h, c, memv, params) ==
    IF w.logger
    THEN LET msg == requireReadString(memv, "msg", params[1], params[2])
         IN  IF msg.panic THEN Panicked(h, memv, "msg")
             ELSE Done(h, memv, NoRet,
                       << [fn |-> "logger", binding |-> <<>>, namespace |-> <<>>,
                           operation |-> <<>>, payload |-> msg.str,
                           resp |-> NilSlice, err |-> NilError] >>)
    ELSE Done(h, memv, NoRet, <<>>)

\* A variant that writes the payload before the operation name.
guestRequestPayloadFirst(w, h, c, memv, params) ==
    LET ic == fromInvokeContext(c)
    IN  IF ic = NilPtr THEN Done(h, memv, NoRet, <<>>)
        ELSE
          LET m1 == IF ~h[ic].guestReq.isNil
                    THEN MemWrite(memv, params[2], Bytes(memv, h[ic].guestReq)) ELSE memv
              m2 == IF h[ic].operation # <<>>
                    THEN MemWrite(m1, params[1], h[ic].operation) ELSE m1
          IN  Done(h, m2, NoRet, <<>>)

\* __guest_request
guestRequest(w, h, c, memv, params) ==
    LET ic == fromInvokeContext(c)
    IN  IF ic = NilPtr THEN Done(h, memv, NoRet, <<>>)
        ELSE
          LET m1 == IF h[ic].operation # <<>>
                    THEN MemWrite(memv, params[1], h[ic].operation) ELSE memv
              m2 == IF ~h[ic].guestReq.isNil
                    THEN MemWrite(m1, params[2], Bytes(m1, h[ic].guestReq)) ELSE m1
          IN  Done(h, m2, NoRet, <<>>)

\* __host_response
hostResponse(w, h, c, memv, params) ==
    LET ic == fromInvokeContext(c)
    IN  IF ic = NilPtr THEN Done(h, memv, NoRet, <<>>)
        ELSE IF ~h[ic].hostResp.isNil
        THEN Done(h, MemWrite(memv, params[1], Bytes(memv, h[ic].hostResp)), NoRet, <<>>)
        ELSE Done(h, memv, NoRet, <<>>)

\* __host_response_len
hostResponseLen(w, h, c, memv) ==
    LET ic == fromInvokeContext(c)
    IN  IF ic = NilPtr THEN Done(h, memv, 0, <<>>)
        ELSE IF ~h[ic].hostResp.isNil
        THEN Done(h, memv, Len(Bytes(memv, h[ic].hostResp)), <<>>)
        ELSE Done(h, memv, 0, <<>>)

\* __guest_response
guestResponse(w, h, c, memv, params) ==
    LET ic == fromInvokeContext(c)
    IN  IF ic = NilPtr THEN Done(h, memv, NoRet, <<>>)
        ELSE LET r == requireRead(memv, "guestResp", params[1], params[2])
             IN  IF r.panic THEN Panicked(h, memv, "guestResp")
                 ELSE Done([h EXCEPT ![ic].guestResp = r.buf], memv, NoRet, <<>>)

\* __guest_error
guestError(w, h, c, memv, params) ==
    LET ic == fromInvokeContext(c)
    IN  IF ic = NilPtr THEN Done(h, memv, NoRet, <<>>)
        ELSE LET r == requireReadString(memv, "guestErr", params[1], params[2])
             IN  IF r.panic THEN Panicked(h, memv, "guestErr")
                 ELSE Done([h EXCEPT ![ic].guestErr = r.str], memv, NoRet, <<>>)

\* __host_error
hostError(w, h, c, memv, params) ==
    LET ic == fromInvokeContext(c)
    IN  IF ic = NilPtr THEN Done(h, memv, NoRet, <<>>)
        ELSE IF ~h[ic].hostErr.isNil
        THEN Done(h, MemWrite(memv, params[1], h[ic].hostErr.text), NoRet, <<>>)
        ELSE Done(h, memv, NoRet, <<>>)

\* A variant that reports the length of the host response instead.
hostErrorLenOfResponse(w, h, c, memv) == hostResponseLen(w, h, c, memv)

\* __host_error_len
hostErrorLen(w, h, c, memv) ==
    LET ic == fromInvokeContext(c)
    IN  IF ic = NilPtr THEN Done(h, memv, 0, <<>>)
        ELSE IF ~h[ic].hostErr.isNil
        THEN Done(h, memv, Len(h[ic].hostErr.text), <<>>)
        ELSE Done(h, memv, 0, <<>>)

\* The import a guest instruction calls.
Import(w, h, c, memv, in, hr) ==
    CASE in.fn = "__host_call" -> hostCall(w, h, c, memv, in.a, hr)
      [] in.fn = "__console_log" -> consoleLog(w, h, c, memv, in.a)
      [] in.fn = "__guest_request" -> guestRequest(w, h, c, memv, in.a)
      [] in.fn = "__host_response" -> hostResponse(w, h, c, memv, in.a)
      [] in.fn = "__host_response_len" -> hostResponseLen(w, h, c, memv)
      [] in.fn = "__guest_response" -> guestResponse(w, h, c, memv, in.a)
      [] in.fn = "__guest_error" -> guestError(w, h, c, memv, in.a)
      [] in.fn = "__host_error" -> hostError(w, h, c, memv, in.a)
      [] in.fn = "__host_error_len" -> hostErrorLen(w, h, c, memv)
\* ------------------------------------------------------------- errors
\* An error value: its message is prefix, then arg (bytes), then suffix;
\* cause names the wrapped engine failure, if any.
NoError == [isNil |-> TRUE, prefix |-> "", arg |-> <<>>, suffix |-> "", cause |-> ""]
\* errors.New(text) for a text the program computed.
ErrorsNew(text) == [isNil |-> FALSE, prefix |-> "", arg |-> text, suffix |-> "", cause |-> ""]
\* errors.New / fmt.Errorf with a constant message.
ErrorConst(msg) == [isNil |-> FALSE, prefix |-> msg, arg |-> <<>>, suffix |-> "", cause |-> ""]
\* fmt.Errorf(prefix + verb + suffix, arg)
Errorf(prefix, arg, suffix) ==
    [isNil |-> FALSE, prefix |-> prefix, arg |-> arg, suffix |-> suffix, cause |-> ""]
\* fmt.Errorf("...: %w", err)
ErrorWrap(prefix, cause) ==
    [isNil |-> FALSE, prefix |-> prefix, arg |-> <<>>, suffix |-> "", cause |-> cause]

QuoteChar == 34
\* %q of a text: the text between double quotes.
Quoted(text) == <<QuoteChar>> \o text \o <<QuoteChar>>

DigitZero == 48
\* fmt.Sprintf("%d", n): the decimal digits of n, as character codes.
RECURSIVE Decimal(_)
Decimal(n) == IF n < 10 THEN <<DigitZero + n>>
              ELSE Decimal(n \div 10) \o <<DigitZero + (n % 10)>>

\* ------------------------------------------------------------- guests
Instr(fn, a) == [fn |-> fn, a |-> a]
Lens == 0..MaxLen
PtrArgs == 0..MemSize     \* MemSize itself is out of bounds for any non-empty range

StoreCode == {Instr("store", <<a, v>>) : a \in Addr, v \in Byte}
RequestCode == {Instr("__guest_request", <<o, q>>) : o \in {0, MemSize - 1}, q \in PtrArgs}
ResponseCode == {Instr("__guest_response", <<q, n>>) : q \in PtrArgs, n \in Lens}
ErrorCode == {Instr("__guest_error", <<q, n>>) : q \in PtrArgs, n \in Lens}
LogCode == {Instr("__console_log", a) : a \in {<<0, 0>>, <<0, MaxLen>>, <<MemSize - 1, MaxLen>>}}
\* binding, namespace, operation and payload as (ptr, len) pairs: pairwise
\* different readable fields, an empty payload, and one unreadable field each.
HostCallCode ==
    {Instr("__host_call", a) : a \in {
        <<0, 1, 1, 1, 0, 2, 1, 2>>,
        <<1, 1, 0, 1, 1, 2, 0, 0>>,
        <<MemSize, 1, 0, 1, 0, 1, 0, 1>>,
        <<0, 1, MemSize - 1, 2, 0, 1, 0, 1>>,
        <<0, 1, 0, 1, MemSize, 1, 0, 1>>,
        <<0, 1, 0, 1, 0, 1, MemSize - 1, 2>> }}
ReplyPtrs == {0, MemSize - 1, MemSize}
HostReplyCode ==
    {Instr("__host_response", <<q>>) : q \in ReplyPtrs}
    \cup {Instr("__host_error", <<q>>) : q \in ReplyPtrs}
    \cup {Instr("__host_response_len", <<>>), Instr("__host_error_len", <<>>)}

\* What a handler may return: a response (nil, empty or not), an error (with
\* an empty or a non-empty text), or both.
HandlerReturns ==
    {[resp |-> NilSlice, err |-> NilError],
     [resp |-> Slice(<<>>), err |-> NilError],
     [resp |-> Slice(<<0, 1>>), err |-> NilError],
     [resp |-> NilSlice, err |-> ErrorOf(<<>>)],
     [resp |-> NilSlice, err |-> ErrorOf(<<1, 1>>)],
     [resp |-> Slice(<<1>>), err |-> ErrorOf(<<1>>)]}

\* The value __guest_call returns in results[0]: failure, success, and two
\* values that are neither (one with the low byte of 1, one the largest i32).
Statuses == {0, 1, 257, 2147483647}
\* ---------------------------------------------------------- scenarios
\* A scenario fixes what surrounds the engine: the goroutines that call it,
\* the handler and logger given to New, the compiled guest (whether it
\* exports __guest_call, its data segment, the imports its start functions
\* and its __guest_call may call), the arguments of Invoke, and which of the
\* engine's own failures can happen; watchEcho says whether the guest's steps
\* are followed for an echo of its request, watchDirty whether what an Invoke
\* leaves in its invokeContext is noted on the Instance.
ZeroMem == [a \in Addr |-> 0]
DataMem == [a \in Addr |-> IF a = 0 THEN 1 ELSE 0]

Guest(exports, data, start, code) ==
    [exports |-> exports, data |-> data, start |-> start, code |-> code]

Scn(name, callers, host, logger, guest, inputs, handler, statuses, outcomes, fails, closes, own, maxInst) ==
    [name |-> name, watchEcho |-> (name = "echo"),
     watchDirty |-> (name \in {"error", "host"}), callers |-> callers, host |-> host, logger |-> logger,
     guest |-> guest, inputs |-> inputs, handler |-> handler, statuses |-> statuses,
     outcomes |-> outcomes, fails |-> fails, closes |-> closes, own |-> own,
     maxInst |-> maxInst]

In(operation, payload) == [operation |-> operation, payload |-> payload]

EchoInputs == {In(<<>>, NilSlice), In(<<>>, Slice(<<>>)), In(<<1>>, Slice(<<1>>)),
               In(<<1>>, Slice(<<0, 1>>))}

\* One caller, a guest that pulls the request, writes its memory and commits
\* responses.
EchoScenario ==
    Scn("echo", {1}, TRUE, FALSE,
        Guest(TRUE, ZeroMem, {}, StoreCode \cup RequestCode \cup ResponseCode),
        EchoInputs, {}, {0, 1, 257}, {"ok"}, {FALSE}, FALSE, FALSE, 1)

\* One caller, a guest that reports errors, after or before a response, and
\* returns any status.
ErrorScenario ==
    Scn("error", {1}, TRUE, FALSE,
        Guest(TRUE, DataMem, {},
              ErrorCode \cup {Instr("__guest_response", <<0, 0>>),
                              Instr("__guest_response", <<0, 2>>),
                              Instr("store", <<1, 1>>)}),
        {In(<<>>, NilSlice), In(<<1, 0>>, Slice(<<1>>))}, {}, Statuses, {"ok"}, {FALSE},
        FALSE, FALSE, 1)

\* One caller, a guest that calls the host and reads what came back; with and
\* without a handler and a logger; its start functions call every import.
StartCode ==
    {Instr("__host_call", <<0, 1, 1, 1, 0, 2, 1, 2>>), Instr("__host_call", <<MemSize, 1, 0, 1, 0, 1, 0, 1>>),
     Instr("__console_log", <<0, 1>>), Instr("__console_log", <<MemSize, 1>>),
     Instr("__guest_request", <<0, 1>>), Instr("__guest_request", <<MemSize, MemSize>>),
     Instr("__host_response", <<0>>), Instr("__host_response", <<MemSize>>),
     Instr("__host_response_len", <<>>),
     Instr("__guest_response", <<0, 1>>), Instr("__guest_response", <<MemSize, 1>>),
     Instr("__guest_error", <<0, 1>>), Instr("__guest_error", <<MemSize, 1>>),
     Instr("__host_error", <<0>>), Instr("__host_error", <<MemSize>>),
     Instr("__host_error_len", <<>>)}

HostScenario(host, logger) ==
    Scn("host", {1}, host, logger,
        Guest(TRUE, DataMem, StartCode,
              HostCallCode \cup HostReplyCode \cup LogCode),
        {In(<<1>>, Slice(<<1>>))}, HandlerReturns, {0, 1}, {"ok"}, {FALSE}, FALSE, FALSE, 1)

\* Two callers sharing one module and its instances, instantiating, invoking
\* and closing in any interleaving; New and the engine may fail, and the
\* guest may lack __guest_call.
LifeCode == {Instr("__guest_response", <<0, 1>>)}
LifeScenario(exports) ==
    Scn("life", {1, 2}, TRUE, FALSE,
        Guest(exports, DataMem, {}, LifeCode),
        {In(<<1>>, NilSlice)}, {}, {1},
        {"ok", "newRuntime", "instantiateWapcHost", "CompileModule"},
        {FALSE, TRUE}, TRUE, FALSE, MaxShared)

\* One caller making its calls one after the other, with the same failures.
SeqScenario(exports) ==
    Scn("seq", {1}, TRUE, FALSE,
        Guest(exports, DataMem, {}, LifeCode),
        {In(<<1>>, NilSlice)}, {}, {1}, {"ok"}, {FALSE, TRUE}, TRUE, FALSE, MaxInstantiate)

\* Two callers, each invoking the instance it made, once, at the same time.
PairCode ==
    {Instr("__guest_request", <<0, 1>>), Instr("__guest_response", <<1, 1>>),
     Instr("__host_call", <<0, 1, 0, 1, 0, 1, 1, 1>>)}
PairScenario ==
    Scn("pair", {1, 2}, TRUE, FALSE,
        Guest(TRUE, ZeroMem, {}, PairCode),
        {In(<<1>>, Slice(<<1>>)), In(<<>>, Slice(<<0>>))},
        {[resp |-> Slice(<<1>>), err |-> ErrorOf(<<1>>)]},
        {1}, {"ok"}, {FALSE}, FALSE, TRUE, 2)

Scenarios ==
    {EchoScenario, ErrorScenario, PairScenario, LifeScenario(TRUE), LifeScenario(FALSE),
     SeqScenario(TRUE)}
    \cup {HostScenario(TRUE, TRUE), HostScenario(FALSE, FALSE)}

\* ------------------------------------------------------------- state
VARIABLES
    scenario,   \* the scenario of this behaviour
    module,     \* the Module: closed, runtime, compiled, instanceCounter
    wapcHost,   \* the wapcHost: callHandler, logger (TRUE: not nil)
    rt,         \* the wazero runtime New made: its state and who closed it
    emods,      \* the runtime's module instances, by instance number
    instances,  \* the Instance values, by instance number (by: who made it; dirty:
                \* its latest Invoke ended with a slot of its invokeContext set)
    returned,   \* the numbers of the instances Instantiate returned, in order
    pc,         \* where each goroutine is
    frame,      \* each goroutine's locals
    ctx,        \* each goroutine's context.Context
    ics,        \* the invokeContext values, by address
    result,     \* what each goroutine's last call returned
    last,       \* the last import each goroutine's guest called, and what it did
    shadow,     \* the invokeContext each running Invoke has when run alone
    echo,       \* how far each running guest is in echoing its request
    sites,      \* the __host_call sites each running guest went through (count, last two)
    handled,    \* the calls the HostCallHandler received from each Invoke (count, last two)
    reported,   \* the text each guest last passed to __guest_error in its Invoke
    closedRet   \* the Module and the Instances whose Close has returned

vars == <<scenario, module, wapcHost, rt, emods, instances, returned, pc, frame,
          ctx, ics, result, last, shadow, echo, sites, handled, reported, closedRet>>

InstNums == 1..MaxInstantiate

NoFrame == [i |-> 0, own |-> NilPtr, operation |-> <<>>, payload |-> NilSlice,
            status |-> 0, err |-> ""]
NoResult == [api |-> "", inst |-> 0, mod |-> FALSE, resp |-> NilSlice, err |-> NoError]
NoLast == [fn |-> "", a |-> <<>>, ret |-> NoRet, panic |-> FALSE, calls |-> <<>>,
           bound |-> FALSE, wrote |-> FALSE, kept |-> TRUE, alone |-> TRUE]
NoEcho == [st |-> "none", ptr |-> 0]
NoCall == [fn |-> "", binding |-> <<>>, namespace |-> <<>>, operation |-> <<>>,
           payload |-> <<>>, resp |-> NilSlice, err |-> NilError]
NoReport == [called |-> FALSE, text |-> <<>>]
NoneClosed == [module |-> FALSE, insts |-> {}]
NoSites == [n |-> 0, last |-> NoCall, prev |-> NoCall]
NoInstance == [made |-> FALSE, name |-> <<>>, m |-> 0, guestCall |-> FALSE, closed |-> 0,
               by |-> 0, dirty |-> FALSE]

Init ==
    /\ scenario \in Scenarios
    /\ module = [made |-> FALSE, closed |-> 0, runtime |-> "nil", compiled |-> FALSE,
                 instanceCounter |-> 0]
    /\ wapcHost = [callHandler |-> FALSE, logger |-> FALSE]
    /\ rt = [state |-> "none", closedBy |-> <<>>]
    /\ emods = [n \in InstNums |-> [state |-> "none", mem |-> ZeroMem, closedBy |-> <<>>]]
    /\ instances = [n \in InstNums |-> NoInstance]
    /\ returned = <<>>
    /\ pc = [g \in Goroutines |-> "idle"]
    /\ frame = [g \in Goroutines |-> NoFrame]
    /\ ctx = [g \in Goroutines |-> PlainCtx]
    /\ ics = [p \in Ptrs |-> ZeroIc]
    /\ result = [g \in Goroutines |-> NoResult]
    /\ last = [g \in Goroutines |-> NoLast]
    /\ shadow = [g \in Goroutines |-> ZeroIc]
    /\ echo = [g \in Goroutines |-> NoEcho]
    /\ sites = [g \in Goroutines |-> NoSites]
    /\ handled = [g \in Goroutines |-> NoSites]
    /\ reported = [g \in Goroutines |-> NoReport]
    /\ closedRet = NoneClosed

\* A variant of the closed check that never sees the flag set.
IsClosedNever(v) == v > 1
\* atomic.LoadUint32(&closed) != 0, the check Instantiate and Invoke start with.
IsClosed(v) == v # 0

\* A variant of the engine module's Close that leaves the module as it is.
EngineModuleCloseSkipped(em, who) == em
\* api.Module.Close on an engine module instance; who names the caller.
EngineModuleClose(em, who) ==
    [em EXCEPT !.state = "closed", !.closedBy = Append(@, who)]

\* A variant that names an instance after the counter's next value.
moduleNameNext(n) == Decimal(n + 1)
\* Line 367: strconv.FormatUint(n, 10) of the value n that AddUint64 returned.
moduleName(n) == Decimal(n)

\* ---------------------------------------------------------------- New
Return(g, res) ==
    /\ result' = [result EXCEPT ![g] = res]
    /\ pc' = [pc EXCEPT ![g] = "idle"]

\* A variant of the runtime's Close that does not close it.
RuntimeCloseSkipped(r, who) == r
\* wazero.Runtime.Close, as seen by the runtime itself; who names the caller.
RuntimeCloseBy(r, who) == [state |-> "closed", closedBy |-> Append(r.closedBy, who)]

\* engine.New, called once, by the first caller.  outcome names the step
\* that fails, if any.  After newRuntime succeeded the Module is handed back
\* (mod = m) whether or not the later steps fail.
New(g, outcome) ==
    /\ g \in scenario.callers /\ pc[g] = "idle"
    /\ rt.state = "none" /\ ~module.made
    /\ outcome \in scenario.outcomes
    /\ IF outcome = "newRuntime"
       THEN /\ UNCHANGED <<module, wapcHost>>
            /\ rt' = [rt EXCEPT !.state = "failed"]
            /\ Return(g, [NoResult EXCEPT !.api = "New", !.err = ErrorConst("newRuntime")])
       ELSE /\ module' = [made |-> TRUE, closed |-> 0, runtime |-> "r",
                          compiled |-> (outcome = "ok"), instanceCounter |-> 0]
            /\ wapcHost' = IF outcome = "instantiateWapcHost" THEN wapcHost
                           ELSE [callHandler |-> scenario.host, logger |-> scenario.logger]
            /\ rt' = IF outcome = "ok" THEN [rt EXCEPT !.state = "live"]
                     ELSE RuntimeCloseBy(rt, "New")
            /\ Return(g, [NoResult EXCEPT !.api = "New", !.mod = TRUE,
                            !.err = IF outcome = "ok" THEN NoError ELSE ErrorConst(outcome)])
    /\ UNCHANGED <<scenario, emods, instances, returned, frame, ctx, ics, last,
                   shadow, echo, sites, handled, reported, closedRet>>

\* -------------------------------------------------------- Instantiate
\* Lines 362-364: the closed check.
Instantiate_check(g) ==
    /\ g \in scenario.callers /\ pc[g] = "idle" /\ module.made
    /\ \/ IsClosed(module.closed)
       \/ module.instanceCounter
            + Cardinality({h \in Goroutines : pc[h] = "Instantiate_add"}) < scenario.maxInst
    /\ IF IsClosed(module.closed)
       THEN Return(g, [NoResult EXCEPT !.api = "Instantiate",
                         !.err = ErrorConst("cannot Instantiate when a module is closed")])
       ELSE /\ pc' = [pc EXCEPT ![g] = "Instantiate_add"]
            /\ result' = [result EXCEPT ![g] = NoResult]
    /\ UNCHANGED <<scenario, module, wapcHost, rt, emods, instances, returned, frame,
                   ctx, ics, last, shadow, echo, sites, handled, reported, closedRet>>

\* Line 367: atomic.AddUint64(&m.instanceCounter, 1).
Instantiate_add(g) ==
    /\ pc[g] = "Instantiate_add"
    /\ module' = [module EXCEPT !.instanceCounter = @ + 1]
    /\ frame' = [frame EXCEPT ![g] = [NoFrame EXCEPT !.i = module.instanceCounter + 1]]
    /\ pc' = [pc EXCEPT ![g] = "Instantiate_engine"]
    /\ UNCHANGED <<scenario, wapcHost, rt, emods, instances, returned, ctx, ics,
                   result, last, shadow, echo, sites, handled, reported, closedRet>>

\* The values a read of m.runtime on line 369 can give: the field is written
\* by Module.Close (line 451) without synchronisation, so once it has been
\* cleared an unsynchronised read gives nil or the handle it held before.
RuntimeRead(r) == IF r = "nil" THEN {"nil", "r"} ELSE {r}

\* Line 369: m.runtime.InstantiateModule.  A nil m.runtime is a nil
\* dereference; a closed runtime, a missing compiled module or a failure of
\* the engine (fails) gives an error; otherwise the instance exists, with the
\* guest's data in its memory, and its start functions run.
Instantiate_engine(g, fails) ==
    /\ pc[g] = "Instantiate_engine"
    /\ fails \in scenario.fails
    /\ \E seen \in RuntimeRead(module.runtime) :
          IF seen = "nil"
          THEN /\ pc' = [pc EXCEPT ![g] = "panic"]
               /\ UNCHANGED <<emods, result>>
          ELSE IF rt.state # "live" \/ ~module.compiled \/ fails
          THEN /\ Return(g, [NoResult EXCEPT !.api = "Instantiate",
                               !.err = ErrorConst("InstantiateModule")])
               /\ UNCHANGED emods
          ELSE /\ emods' = [emods EXCEPT ![frame[g].i] =
                               [state |-> "live", mem |-> scenario.guest.data, closedBy |-> <<>>]]
               /\ pc' = [pc EXCEPT ![g] = "start"]
               /\ UNCHANGED result
    /\ UNCHANGED <<scenario, module, wapcHost, rt, instances, returned, frame, ctx,
                   ics, last, shadow, echo, sites, handled, reported, closedRet>>

\* Lines 374-381, once the start functions have returned: the Instance, or
\* the error for a guest without __guest_call, whose instance is closed.
Instantiate_export(g) ==
    /\ pc[g] = "start"
    /\ LET n == frame[g].i
       IN  IF ~scenario.guest.exports
           THEN /\ emods' = [emods EXCEPT ![n] = EngineModuleClose(@, "Instantiate")]
                /\ Return(g, [NoResult EXCEPT !.api = "Instantiate",
                                !.err = Errorf("module ", moduleName(n),
                                               " didn't export function __guest_call")])
                /\ UNCHANGED <<instances, returned>>
           ELSE /\ instances' = [instances EXCEPT ![n] =
                                    [made |-> TRUE, name |-> moduleName(n), m |-> n,
                                     guestCall |-> TRUE, closed |-> 0, by |-> g,
                                     dirty |-> FALSE]]
                /\ returned' = Append(returned, n)
                /\ Return(g, [NoResult EXCEPT !.api = "Instantiate", !.inst = n])
                /\ UNCHANGED emods
    /\ frame' = [frame EXCEPT ![g] = NoFrame]
    /\ UNCHANGED <<scenario, module, wapcHost, rt, ctx, ics, last, shadow, echo,
                   sites, handled, reported, closedRet>>
\* ------------------------------------------------------------- Invoke
\* A variant that looks at the guest's error before the engine's.
InvokeOutcomeGuestFirst(ic, memv, callErr, status, operation) ==
    IF ic.guestErr # <<>>
    THEN [resp |-> NilSlice, err |-> ErrorsNew(ic.guestErr)]
    ELSE IF callErr # ""
    THEN [resp |-> NilSlice, err |-> ErrorWrap("error invoking guest: ", callErr)]
    ELSE IF status = 1
    THEN [resp |-> IF ic.guestResp.isNil THEN NilSlice ELSE Slice(Bytes(memv, ic.guestResp)),
          err |-> NoError]
    ELSE [resp |-> NilSlice,
          err |-> Errorf("call to ", Quoted(operation), " was unsuccessful")]

\* A variant that takes every positive status for success.
InvokeOutcomePositive(ic, memv, callErr, status, operation) ==
    IF callErr # ""
    THEN [resp |-> NilSlice, err |-> ErrorWrap("error invoking guest: ", callErr)]
    ELSE IF ic.guestErr # <<>>
    THEN [resp |-> NilSlice, err |-> ErrorsNew(ic.guestErr)]
    ELSE IF status >= 1
    THEN [resp |-> IF ic.guestResp.isNil THEN NilSlice ELSE Slice(Bytes(memv, ic.guestResp)),
          err |-> NoError]
    ELSE [resp |-> NilSlice,
          err |-> Errorf("call to ", Quoted(operation), " was unsuccessful")]

\* Lines 420-434: what Invoke returns once guestCall.Call is back with
\* callErr (the cause, "" for none) or the status in results[0].
InvokeOutcome(ic, memv, callErr, status, operation) ==
    IF callErr # ""
    THEN [resp |-> NilSlice, err |-> ErrorWrap("error invoking guest: ", callErr)]
    ELSE IF ic.guestErr # <<>>
    THEN [resp |-> NilSlice, err |-> ErrorsNew(ic.guestErr)]
    ELSE IF status = 1
    THEN [resp |-> IF ic.guestResp.isNil THEN NilSlice ELSE Slice(Bytes(memv, ic.guestResp)),
          err |-> NoError]
    ELSE [resp |-> NilSlice,
          err |-> Errorf("call to ", Quoted(operation), " was unsuccessful")]

FreePtrs == Ptrs \ {frame[g].own : g \in Goroutines}
NewPtr == CHOOSE p \in FreePtrs : \A q \in FreePtrs : p <= q

\* Lines 411-417: the closed check, then the fresh invokeContext bound to ctx.
Invoke_begin(g, i, in) ==
    /\ g \in scenario.callers /\ pc[g] = "idle"
    /\ instances[i].made /\ in \in scenario.inputs
    /\ scenario.own => instances[i].by = g /\ result[g].api # "Invoke"
    /\ IF IsClosed(instances[i].closed)
       THEN /\ Return(g, [NoResult EXCEPT !.api = "Invoke", !.inst = i,
                            !.err = ErrorConst("error invoking guest with closed instance")])
            /\ frame' = [frame EXCEPT ![g] = [NoFrame EXCEPT !.i = i]]
            /\ UNCHANGED <<ctx, ics, shadow>>
       ELSE /\ frame' = [frame EXCEPT ![g] =
                            [NoFrame EXCEPT !.i = i, !.own = NewPtr,
                                            !.operation = in.operation, !.payload = in.payload]]
            /\ ics' = [ics EXCEPT ![NewPtr] = NewIc(in.operation, in.payload)]
            /\ ctx' = [ctx EXCEPT ![g] = newInvokeContext(PlainCtx, NewPtr)]
            /\ shadow' = [shadow EXCEPT ![g] = NewIc(in.operation, in.payload)]
            /\ pc' = [pc EXCEPT ![g] = "Invoke_call"]
            /\ result' = [result EXCEPT ![g] = NoResult]
    /\ echo' = [echo EXCEPT ![g] = NoEcho]
    /\ reported' = [reported EXCEPT ![g] = NoReport]
    /\ UNCHANGED <<scenario, module, wapcHost, rt, emods, instances, returned, last,
                   sites, handled, closedRet>>

\* A guest or a handler has set one of the four result slots of ic.
Dirty(ic) ==
    ic.guestErr # <<>> \/ ~ic.guestResp.isNil \/ ~ic.hostResp.isNil \/ ~ic.hostErr.isNil

\* Lines 420-435: guestCall.Call is back, with callErr or with status, in
\* memory memv; Invoke returns and its invokeContext is dropped.
Invoke_finish(g, memv, callErr, status) ==
    /\ LET f == frame[g]
           o == InvokeOutcome(ics[f.own], memv, callErr, status, f.operation)
       IN  Return(g, [NoResult EXCEPT !.api = "Invoke", !.inst = f.i,
                        !.resp = o.resp, !.err = o.err])
    /\ ics' = [ics EXCEPT ![frame[g].own] = ZeroIc]
    /\ ctx' = [ctx EXCEPT ![g] = PlainCtx]
    /\ frame' = [frame EXCEPT ![g].own = NilPtr, ![g].status = status, ![g].err = callErr]
    /\ shadow' = [shadow EXCEPT ![g] = ZeroIc]
    /\ last' = [last EXCEPT ![g] = NoLast]
    /\ sites' = [sites EXCEPT ![g] = NoSites]
    /\ handled' = [handled EXCEPT ![g] = NoSites]
    /\ instances' = [instances EXCEPT ![frame[g].i].dirty =
                                         scenario.watchDirty /\ Dirty(ics[frame[g].own])]

\* Line 419, entering the engine: a closed instance fails the call, a live
\* one starts running __guest_call.
Invoke_call(g) ==
    /\ pc[g] = "Invoke_call"
    /\ IF emods[instances[frame[g].i].m].state # "live"
       THEN Invoke_finish(g, emods[instances[frame[g].i].m].mem, "module closed", 0)
       ELSE /\ pc' = [pc EXCEPT ![g] = "guest"]
            /\ UNCHANGED <<frame, ctx, ics, result, last, shadow, sites, handled, instances>>
    /\ UNCHANGED <<scenario, module, wapcHost, rt, emods, returned, echo,
                   reported, closedRet>>

\* ---------------------------------------------------------- the guest
\* A goroutine runs guest code inside InstantiateModule (the start
\* functions, under the caller's context) and inside guestCall.Call (under
\* the context Invoke bound its invokeContext to).
CodeOf(g) == IF pc[g] = "start" THEN scenario.guest.start ELSE scenario.guest.code

InBounds(q, n) == q + n <= MemSize

\* The four fields of a __host_call as the guest laid them out in memory.
SiteOf(memv, a) ==
    [NoCall EXCEPT !.fn = "callHandler", !.binding = MemBytes(memv, a[1], a[2]),
                   !.namespace = MemBytes(memv, a[3], a[4]),
                   !.operation = MemBytes(memv, a[5], a[6]),
                   !.payload = MemBytes(memv, a[7], a[8])]

SiteReadable(a) ==
    InBounds(a[1], a[2]) /\ InBounds(a[3], a[4]) /\ InBounds(a[5], a[6]) /\ InBounds(a[7], a[8])

\* The echo a guest is in the middle of: it pulled the request at ptr, and
\* then committed Len(payload) bytes from ptr, with nothing written between.
EchoAfter(e, in, payload) ==
    CASE in.fn = "__guest_request" -> [st |-> "pulled", ptr |-> in.a[2]]
      [] in.fn = "__guest_response" ->
            IF e.st = "pulled" /\ in.a[1] = e.ptr /\ in.a[2] = Len(payload.b)
            THEN [st |-> "committed", ptr |-> e.ptr] ELSE NoEcho
      [] in.fn \in {"store", "__guest_error", "__host_response", "__host_error"} -> NoEcho
      [] OTHER -> e

\* One import called by g's guest; hr is what the handler returns if called.
\* A panic inside an import ends the engine call that ran the guest: Invoke
\* returns the wrapped error, InstantiateModule closes the instance and fails.
ImportStep(g, in, hr) ==
    /\ pc[g] \in {"start", "guest"} /\ in \in CodeOf(g)
    /\ LET n == frame[g].i
           memv == emods[n].mem
           p == fromInvokeContext(ctx[g])
           r == Import(wapcHost, ics, ctx[g], memv, in, hr)
           rs == Import(wapcHost, [q \in Ptrs |-> shadow[g]], ctx[g], memv, in, hr)
           inStart == pc[g] = "start"
       IN  /\ emods' = [emods EXCEPT ![n].mem = r.mem,
                                     ![n].state = IF r.panic /\ inStart THEN "closed" ELSE @]
           /\ echo' = IF inStart \/ ~scenario.watchEcho THEN echo
                      ELSE [echo EXCEPT ![g] = EchoAfter(@, in, frame[g].payload)]
           /\ reported' = IF in.fn = "__guest_error" /\ ~inStart /\ ~r.panic
                          THEN [reported EXCEPT ![g] =
                                  [called |-> TRUE, text |-> MemBytes(memv, in.a[1], in.a[2])]]
                          ELSE reported
           /\ IF r.panic /\ ~inStart
              THEN Invoke_finish(g, r.mem, "panic", 0)
              ELSE /\ ics' = r.h
                   /\ shadow' = IF p = NilPtr THEN shadow
                                ELSE [shadow EXCEPT ![g] = rs.h[p]]
                   /\ last' = [last EXCEPT ![g] =
                                 [fn |-> in.fn, a |-> in.a, ret |-> r.ret, panic |-> r.panic,
                                  calls |-> r.calls, bound |-> ~inStart,
                                  wrote |-> (r.mem # memv), kept |-> (r.h = ics),
                                  alone |-> (r.mem = rs.mem /\ r.ret = rs.ret
                                             /\ r.panic = rs.panic /\ r.calls = rs.calls)]]
                   /\ handled' = IF r.calls # <<>> /\ r.calls[1].fn = "callHandler"
                                 THEN [handled EXCEPT ![g] =
                                         [n |-> @.n + 1, last |-> r.calls[1], prev |-> @.last]]
                                 ELSE handled
                   /\ sites' = IF in.fn = "__host_call" /\ ~inStart /\ SiteReadable(in.a)
                               THEN [sites EXCEPT ![g] =
                                       [n |-> @.n + 1, last |-> SiteOf(memv, in.a),
                                        prev |-> @.last]]
                               ELSE sites
                   /\ IF r.panic
                      THEN Return(g, [NoResult EXCEPT !.api = "Instantiate",
                                        !.err = ErrorConst("InstantiateModule")])
                      ELSE UNCHANGED <<pc, result>>
                   /\ UNCHANGED <<frame, ctx, instances>>
    /\ UNCHANGED <<scenario, module, wapcHost, rt, returned, closedRet>>

NoHandlerReturn == [resp |-> NilSlice, err |-> NilError]

HostCall(g) ==
    \E in \in CodeOf(g), hr \in scenario.handler \cup {NoHandlerReturn} :
        /\ in.fn = "__host_call"
        /\ handled[g].n < MaxHostCalls /\ sites[g].n < MaxHostCalls
        /\ hr = NoHandlerReturn => scenario.handler = {}
        /\ ImportStep(g, in, hr)
ConsoleLog(g) ==
    \E in \in CodeOf(g) : in.fn = "__console_log" /\ ImportStep(g, in, NoHandlerReturn)
GuestRequest(g) ==
    \E in \in CodeOf(g) : in.fn = "__guest_request" /\ ImportStep(g, in, NoHandlerReturn)
HostResponse(g) ==
    \E in \in CodeOf(g) : in.fn = "__host_response" /\ ImportStep(g, in, NoHandlerReturn)
HostResponseLen(g) ==
    \E in \in CodeOf(g) : in.fn = "__host_response_len" /\ ImportStep(g, in, NoHandlerReturn)
GuestResponse(g) ==
    \E in \in CodeOf(g) : in.fn = "__guest_response" /\ ImportStep(g, in, NoHandlerReturn)
GuestError(g) ==
    \E in \in CodeOf(g) : in.fn = "__guest_error" /\ ImportStep(g, in, NoHandlerReturn)
HostError(g) ==
    \E in \in CodeOf(g) : in.fn = "__host_error" /\ ImportStep(g, in, NoHandlerReturn)
HostErrorLen(g) ==
    \E in \in CodeOf(g) : in.fn = "__host_error_len" /\ ImportStep(g, in, NoHandlerReturn)

\* The guest writes a byte of its own memory.
GuestStore(g) ==
    \E in \in CodeOf(g) :
        /\ in.fn = "store" /\ pc[g] \in {"start", "guest"}
        /\ emods' = [emods EXCEPT ![frame[g].i].mem[in.a[1]] = in.a[2]]
        /\ last' = [last EXCEPT ![g] = [NoLast EXCEPT !.fn = "store", !.a = in.a,
                                                      !.bound = (pc[g] = "guest"),
                                                      !.wrote = TRUE]]
        /\ echo' = IF pc[g] = "start" \/ ~scenario.watchEcho THEN echo
                   ELSE [echo EXCEPT ![g] = EchoAfter(@, in, frame[g].payload)]
        /\ UNCHANGED <<scenario, module, wapcHost, rt, instances, returned, pc, frame,
                       ctx, ics, result, shadow, sites, handled, reported, closedRet>>

\* What guestCall.Call reports when the guest function has run to its end in
\* engine module em: nothing for a live one; for one that was closed while
\* the function ran, the engine either reports nothing or fails the call.
CallEnd(em) == IF em.state = "live" THEN {""} ELSE {"", "module closed"}

\* __guest_call returns status, and Invoke returns.
GuestReturn(g, status) ==
    /\ pc[g] = "guest" /\ status \in scenario.statuses
    /\ \E callErr \in CallEnd(emods[frame[g].i]) :
          Invoke_finish(g, emods[frame[g].i].mem, callErr,
                        IF callErr = "" THEN status ELSE 0)
    /\ UNCHANGED <<scenario, module, wapcHost, rt, emods, returned, echo,
                   reported, closedRet>>

\* __guest_call traps, and Invoke returns.
GuestTrap(g) ==
    /\ pc[g] = "guest" /\ TRUE \in scenario.fails
    /\ Invoke_finish(g, emods[frame[g].i].mem, "trap", 0)
    /\ UNCHANGED <<scenario, module, wapcHost, rt, emods, returned, echo,
                   reported, closedRet>>

\* -------------------------------------------------------------- Close
\* A variant that stores the new value whatever the old one is.
CompareAndSwapAlways(v, old, new) == [swapped |-> TRUE, v |-> new]

\* A variant that reports the swap and leaves the flag as it was.
CompareAndSwapNoStore(v, old, new) == [swapped |-> v = old, v |-> v]

\* atomic.CompareAndSwapUint32(&closed, old, new) on a closed flag v.
CompareAndSwap(v, old, new) ==
    IF v = old THEN [swapped |-> TRUE, v |-> new] ELSE [swapped |-> FALSE, v |-> v]

\* Instance.Close, lines 439-441: the one-shot flag.
InstanceClose_cas(g, i) ==
    /\ g \in scenario.callers /\ pc[g] = "idle" /\ scenario.closes
    /\ instances[i].made
    /\ LET cas == CompareAndSwap(instances[i].closed, 0, 1)
       IN  /\ instances' = [instances EXCEPT ![i].closed = cas.v]
           /\ IF cas.swapped
              THEN /\ pc' = [pc EXCEPT ![g] = "InstanceClose_m"]
                   /\ frame' = [frame EXCEPT ![g] = [NoFrame EXCEPT !.i = i]]
                   /\ result' = [result EXCEPT ![g] = NoResult]
              ELSE /\ Return(g, [NoResult EXCEPT !.api = "Instance.Close", !.inst = i])
                   /\ frame' = [frame EXCEPT ![g] = NoFrame]
           /\ closedRet' = IF cas.swapped THEN closedRet
                           ELSE [closedRet EXCEPT !.insts = @ \cup {i}]
    /\ UNCHANGED <<scenario, module, wapcHost, rt, emods, returned, ctx, ics, last,
                   shadow, echo, sites, handled, reported>>

\* Instance.Close, line 442: i.m.Close(ctx).
InstanceClose_m(g) ==
    /\ pc[g] = "InstanceClose_m"
    /\ emods' = [emods EXCEPT ![instances[frame[g].i].m] = EngineModuleClose(@, "Close")]
    /\ Return(g, [NoResult EXCEPT !.api = "Instance.Close", !.inst = frame[g].i])
    /\ closedRet' = [closedRet EXCEPT !.insts = @ \cup {frame[g].i}]
    /\ UNCHANGED <<scenario, module, wapcHost, rt, instances, returned, frame, ctx,
                   ics, last, shadow, echo, sites, handled, reported>>

\* Module.Close, lines 447-449: the one-shot flag.
ModuleClose_cas(g) ==
    /\ g \in scenario.callers /\ pc[g] = "idle" /\ scenario.closes
    /\ module.made
    /\ LET cas == CompareAndSwap(module.closed, 0, 1)
       IN  /\ module' = [module EXCEPT !.closed = cas.v]
           /\ IF cas.swapped
              THEN /\ pc' = [pc EXCEPT ![g] = "ModuleClose_runtime"]
                   /\ result' = [result EXCEPT ![g] = NoResult]
              ELSE Return(g, [NoResult EXCEPT !.api = "Module.Close", !.mod = TRUE])
           /\ closedRet' = [closedRet EXCEPT !.module = @ \/ ~cas.swapped]
    /\ UNCHANGED <<scenario, wapcHost, rt, emods, instances, returned, frame, ctx,
                   ics, last, shadow, echo, sites, handled, reported>>

\* A variant of the runtime's Close that leaves its module instances live.
RuntimeCloseKeepsModules(ems) == ems
\* wazero.Runtime.Close, as seen by the module instances of the runtime:
\* every live one is closed.
RuntimeClose(ems) ==
    [n \in InstNums |->
        IF ems[n].state = "live" THEN [ems[n] EXCEPT !.state = "closed"] ELSE ems[n]]

\* Module.Close, line 450: m.runtime.Close(ctx), which closes every module
\* instance of the runtime.
ModuleClose_runtime(g) ==
    /\ pc[g] = "ModuleClose_runtime"
    /\ rt' = RuntimeCloseBy(rt, "Close")
    /\ emods' = RuntimeClose(emods)
    /\ pc' = [pc EXCEPT ![g] = "ModuleClose_nil"]
    /\ UNCHANGED <<scenario, module, wapcHost, instances, returned, frame, ctx, ics,
                   result, last, shadow, echo, sites, handled, reported, closedRet>>

\* Module.Close, lines 451-452: m.runtime = nil, and the return.
ModuleClose_nil(g) ==
    /\ pc[g] = "ModuleClose_nil"
    /\ module' = [module EXCEPT !.runtime = "nil"]
    /\ Return(g, [NoResult EXCEPT !.api = "Module.Close", !.mod = TRUE])
    /\ closedRet' = [closedRet EXCEPT !.module = TRUE]
    /\ UNCHANGED <<scenario, wapcHost, rt, emods, instances, returned, frame, ctx,
                   ics, last, shadow, echo, sites, handled, reported>>

\* ------------------------------------------------------ specification
Next ==
    \E g \in Goroutines :
        \/ \E outcome \in {"ok", "newRuntime", "instantiateWapcHost", "CompileModule"} :
              New(g, outcome)
        \/ Instantiate_check(g)
        \/ Instantiate_add(g)
        \/ \E fails \in BOOLEAN : Instantiate_engine(g, fails)
        \/ Instantiate_export(g)
        \/ \E i \in InstNums, in \in scenario.inputs : Invoke_begin(g, i, in)
        \/ Invoke_call(g)
        \/ HostCall(g)
        \/ ConsoleLog(g)
        \/ GuestRequest(g)
        \/ HostResponse(g)
        \/ HostResponseLen(g)
        \/ GuestResponse(g)
        \/ GuestError(g)
        \/ HostError(g)
        \/ HostErrorLen(g)
        \/ GuestStore(g)
        \/ \E status \in Statuses : GuestReturn(g, status)
        \/ GuestTrap(g)
        \/ \E i \in InstNums : InstanceClose_cas(g, i)
        \/ InstanceClose_m(g)
        \/ ModuleClose_cas(g)
        \/ ModuleClose_runtime(g)
        \/ ModuleClose_nil(g)

Spec == Init /\ [][Next]_vars

\* ------------------------------------------------------------ properties
\* An Invoke of goroutine g has returned and its result is still in place.
Returned(g) == pc[g] = "idle" /\ result[g].api = "Invoke"

\* C1: round trip.  When the guest pulled its request with __guest_request,
\* committed exactly the request's payload bytes from where it was pulled
\* with __guest_response and returned 1 without an engine failure, Invoke
\* returns the bytes of the payload it was given and no error.
C1_RoundTrip ==
    \A g \in Goroutines :
        (Returned(g) /\ echo[g].st = "committed" /\ frame[g].err = ""
         /\ frame[g].status = 1)
        => /\ result[g].err = NoError
           /\ ~result[g].resp.isNil
           /\ result[g].resp.b = frame[g].payload.b

\* A round trip of a two-byte payload under a non-empty operation name.
C1_Witness ==
    \E g \in Goroutines :
        /\ Returned(g) /\ echo[g].st = "committed" /\ frame[g].err = ""
        /\ frame[g].status = 1
        /\ frame[g].operation = <<1>> /\ frame[g].payload.b = <<0, 1>>
        /\ result[g].resp.b = <<0, 1>> /\ result[g].err = NoError

\* C2: guest error passthrough.  When the guest called __guest_error with a
\* text e of any length and then returned any status without an engine
\* failure, Invoke returns an error whose message is e.
C2_GuestErrorPassthrough ==
    \A g \in Goroutines :
        (Returned(g) /\ reported[g].called /\ frame[g].err = "")
        => result[g].err = ErrorsNew(reported[g].text)

\* The same for the texts that are not empty, which is what the code does.
C2_NonEmptyPassthrough ==
    \A g \in Goroutines :
        (Returned(g) /\ reported[g].called /\ frame[g].err = ""
         /\ reported[g].text # <<>>)
        => /\ result[g].err = ErrorsNew(reported[g].text)
           /\ result[g].resp = NilSlice

\* An Invoke whose guest reported the empty text and returned 1: no error.
C2_EmptyTextLost ==
    \E g \in Goroutines :
        /\ Returned(g) /\ reported[g].called /\ frame[g].err = ""
        /\ reported[g].text = <<>> /\ frame[g].status = 1
        /\ result[g].err = NoError

\* Goroutine g is inside the __guest_call of its Invoke.
InGuest(g) == pc[g] = "guest" /\ frame[g].own # NilPtr

\* The handler's latest return in g's Invoke was an error.
HostFailed(g) == InGuest(g) /\ handled[g].n > 0 /\ ~handled[g].last.err.isNil

\* C3: host error visibility.  When the HostCallHandler returned an error E
\* for a __host_call of an Invoke, that __host_call returns 0, and until the
\* next __host_call E stays in place: __host_error_len returns the length of
\* E's text and __host_error writes E's text at the pointer it is given
\* (a pointer the text fits at).
C3_HostErrorVisibility ==
    \A g \in Goroutines :
        HostFailed(g) =>
            LET E == handled[g].last.err
                l == last[g]
                memv == emods[frame[g].i].mem
            IN  /\ ics[frame[g].own].hostErr = E
                /\ l.fn = "__host_call" => l.ret = 0
                /\ l.fn = "__host_error_len" => l.ret = Len(E.text)
                /\ (l.fn = "__host_error" /\ InBounds(l.a[1], Len(E.text)))
                   => MemBytes(memv, l.a[1], Len(E.text)) = E.text

\* The guest has just had the two bytes of a handler's error written.
C3_Witness ==
    \E g \in Goroutines :
        /\ HostFailed(g) /\ handled[g].last.err.text = <<1, 1>>
        /\ last[g].fn = "__host_error" /\ last[g].wrote
        /\ MemBytes(emods[frame[g].i].mem, last[g].a[1], 2) = <<1, 1>>

\* C4: host call passthrough and ordering.  Within one Invoke with a handler
\* configured, the handler has been called once per __host_call the guest
\* made, and its latest call carries the binding, namespace, operation and
\* payload of the guest's latest __host_call, as they were in memory.  Both
\* counts grow by at most one per step, so this holding in every state says
\* the two sequences are equal.
C4_HostCallPassthrough ==
    \A g \in Goroutines :
        (InGuest(g) /\ wapcHost.callHandler) =>
            /\ handled[g].n = sites[g].n
            /\ handled[g].last.fn = sites[g].last.fn
            /\ handled[g].last.binding = sites[g].last.binding
            /\ handled[g].last.namespace = sites[g].last.namespace
            /\ handled[g].last.operation = sites[g].last.operation
            /\ handled[g].last.payload = sites[g].last.payload

\* A second handler call, whose four fields are not all the same.
C4_Witness ==
    \E g \in Goroutines :
        /\ InGuest(g) /\ wapcHost.callHandler
        /\ handled[g].n = MaxHostCalls /\ sites[g].n = MaxHostCalls
        /\ handled[g].last.binding # handled[g].last.namespace
        /\ handled[g].last.operation # handled[g].last.payload
        /\ handled[g].last.binding = sites[g].last.binding

\* Goroutine g takes a step out of idle, or a step that gives it a result.
Calls(g) == pc[g] = "idle" /\ (pc'[g] # "idle" \/ result'[g] # result[g])

\* C5: post-close rejection.  Once Module.Close has returned, a call of
\* Instantiate does not get past the closed check and returns an error and
\* no instance; once Instance.Close has returned on an instance, a call of
\* Invoke on it does not reach the guest and returns an error and no
\* response.
C5_PostCloseRejection ==
    [][\A g \in Goroutines :
        /\ (closedRet.module /\ Calls(g)) =>
              /\ pc'[g] # "Instantiate_add"
              /\ result'[g].api = "Instantiate" =>
                    ~result'[g].err.isNil /\ result'[g].inst = 0
        /\ (Calls(g) /\ frame'[g].i \in closedRet.insts) =>
              /\ pc'[g] # "Invoke_call"
              /\ result'[g].api = "Invoke" =>
                    ~result'[g].err.isNil /\ result'[g].resp = NilSlice
      ]_vars

\* After both closes returned, one caller was refused an instance and the
\* other an invocation.
C5_Witness ==
    \E g, h \in Goroutines :
        /\ closedRet.module /\ closedRet.insts # {}
        /\ pc[g] = "idle" /\ result[g].api = "Instantiate"
        /\ result[g].err = ErrorConst("cannot Instantiate when a module is closed")
        /\ pc[h] = "idle" /\ result[h].api = "Invoke"
        /\ result[h].inst \in closedRet.insts
        /\ result[h].err = ErrorConst("error invoking guest with closed instance")

\* How many of the closes in closedBy a Close call performed.
ByClose(closedBy) == Cardinality({k \in DOMAIN closedBy : closedBy[k] = "Close"})

\* C6: close idempotence.  However many Close calls are made on a Module or
\* on an Instance, in whatever interleaving, Close calls close the runtime
\* at most once and each engine module at most once, and a Close call that
\* finds the flag already set returns no error and changes nothing.
C6_CloseIdempotence ==
    /\ [](/\ ByClose(rt.closedBy) <= 1
          /\ \A n \in InstNums : ByClose(emods[n].closedBy) <= 1)
    /\ [][\A g \in Goroutines :
            (/\ Calls(g) /\ pc'[g] = "idle"
             /\ result'[g].api \in {"Module.Close", "Instance.Close"})
            => /\ result'[g].err.isNil
               /\ UNCHANGED <<module, rt, emods, instances>>
         ]_vars

\* Two Module.Close calls have returned, and so has a Close of an instance
\* after another one closed it; the runtime and the instance's engine module
\* were closed once each.
C6_Witness ==
    \E g, h \in Goroutines, n \in InstNums :
        /\ g # h /\ pc[g] = "idle" /\ pc[h] = "idle"
        /\ result[g].api = "Module.Close" /\ result[h].api = "Module.Close"
        /\ result[g].err.isNil /\ result[h].err.isNil
        /\ ByClose(rt.closedBy) = 1
        /\ n \in closedRet.insts /\ ByClose(emods[n].closedBy) = 1

\* The returned instance at position k of the return order.
ReturnedAt(k) == instances[returned[k]]

\* C7: instance naming, as claimed.  The instances Instantiate returned are
\* named "1", "2", "3", ... in the order they were returned, whether or not
\* other Instantiate calls failed.
C7_ConsecutiveNames ==
    \A k \in 1..Len(returned) : ReturnedAt(k).name = Decimal(k)

\* Every Instantiate call that got past the closed check has come back.
NoneInFlight ==
    \A g \in Goroutines : pc[g] \notin {"Instantiate_add", "Instantiate_engine", "start"}

\* C7, amended.  Every returned instance is named by the decimal text of
\* the positive value the instance counter had for its Instantiate call, a
\* value no other instance has and that counts the calls that passed the
\* closed check, failed ones included.  With Instantiate called by one
\* caller at a time the names are strictly increasing in the order of
\* return, the k-th is not below k, and they are exactly 1, 2, 3, ... when
\* no call failed.
C7_IncreasingNames ==
    /\ \A k \in 1..Len(returned) :
          /\ ReturnedAt(k).name = Decimal(returned[k])
          /\ 1 <= returned[k] /\ returned[k] <= module.instanceCounter
    /\ \A j, k \in 1..Len(returned) : j # k => ReturnedAt(j).name # ReturnedAt(k).name
    /\ Cardinality(scenario.callers) = 1 =>
          /\ \A k \in 1..Len(returned) : k <= returned[k]
          /\ \A j, k \in 1..Len(returned) : j < k => returned[j] < returned[k]
          /\ (NoneInFlight /\ module.instanceCounter = Len(returned))
                => \A k \in 1..Len(returned) : ReturnedAt(k).name = Decimal(k)

\* After a call that failed in the engine, the first two instances returned
\* are named "2" and "3".
C7_Witness ==
    /\ Cardinality(scenario.callers) = 1 /\ Len(returned) = 2
    /\ ReturnedAt(1).name = Decimal(2) /\ ReturnedAt(2).name = Decimal(3)

\* The last import of g's guest ran with no invokeContext bound.
Unbound(g) == last[g].fn \notin {"", "store"} /\ ~last[g].bound

\* An import that did nothing: no write to memory, no invokeContext changed,
\* no handler or logger called (which is also all that reads memory for),
\* no panic, and 0 for a result if it has one.
Inert(l) ==
    /\ ~l.wrote /\ l.kept /\ l.calls = <<>> /\ ~l.panic
    /\ l.ret = IF l.fn \in {"__host_call", "__host_response_len", "__host_error_len"}
               THEN 0 ELSE NoRet

\* C8: absent context inertness, as claimed.  With no invokeContext bound,
\* each of the nine imports does nothing.
C8_AllImportsInert ==
    \A g \in Goroutines : Unbound(g) => Inert(last[g])

\* C8, amended.  With no invokeContext bound, each import other than
\* __console_log does nothing; __console_log does nothing only when no logger
\* is configured, and otherwise reads its message and logs it, or panics when
\* the message is out of bounds, as it does inside an Invoke.
C8_InertExceptLog ==
    \A g \in Goroutines :
        Unbound(g) =>
            IF last[g].fn = "__console_log" /\ wapcHost.logger
            THEN /\ ~last[g].wrote /\ last[g].kept /\ last[g].ret = NoRet
                 /\ IF InBounds(last[g].a[1], last[g].a[2])
                    THEN /\ ~last[g].panic /\ Len(last[g].calls) = 1
                         /\ last[g].calls[1].fn = "logger"
                    ELSE last[g].panic /\ last[g].calls = <<>>
            ELSE Inert(last[g])

\* A __host_call with readable fields made from a start function, with a
\* handler configured: 0, and the handler not called.
C8_Witness ==
    \E g \in Goroutines :
        /\ Unbound(g) /\ pc[g] = "start" /\ wapcHost.callHandler
        /\ last[g].fn = "__host_call" /\ SiteReadable(last[g].a)
        /\ Inert(last[g])

\* C9: result interpretation.  When __guest_call returns without an engine
\* failure and guestErr is empty, Invoke returns guestResp (nil if the guest
\* committed none) and no error exactly when the status is 1; for any other
\* status it returns no response and the error saying the call to the
\* quoted operation was unsuccessful.
C9_ResultInterpretation ==
    [][\A g \in Goroutines :
        (/\ InGuest(g) /\ pc'[g] = "idle" /\ frame'[g].err = ""
         /\ ics[frame[g].own].guestErr = <<>>)
        => LET committed == ics[frame[g].own].guestResp
               memv == emods[frame[g].i].mem
           IN  IF frame'[g].status = 1
               THEN /\ result'[g].err = NoError
                    /\ result'[g].resp.isNil = committed.isNil
                    /\ result'[g].resp.b = Bytes(memv, committed)
               ELSE /\ result'[g].resp = NilSlice
                    /\ result'[g].err =
                         Errorf("call to ", Quoted(frame[g].operation), " was unsuccessful")
      ]_vars

\* An Invoke whose guest committed a response and returned 257.
C9_Witness ==
    \E g \in Goroutines :
        /\ Returned(g) /\ echo[g].st = "committed" /\ frame[g].err = ""
        /\ frame[g].status = 257 /\ frame[g].operation = <<1>>
        /\ result[g].resp = NilSlice
        /\ result[g].err = Errorf("call to ", <<QuoteChar, 1, QuoteChar>>, " was unsuccessful")

\* Goroutine g has an Invoke under way.
Invoking(g) == frame[g].own # NilPtr

\* C10: invocation context isolation.  In any interleaving of Invoke calls,
\* each Invoke has an invokeContext of its own, bound to its own context;
\* that invokeContext is at every moment what it is when the Invoke runs
\* alone, every import called for it did to memory, returned and called back
\* what it does when the Invoke runs alone, and the Invoke returns what that
\* invokeContext gives.
C10_ContextIsolation ==
    /\ [](\A g \in Goroutines :
            Invoking(g) =>
                /\ fromInvokeContext(ctx[g]) = frame[g].own
                /\ \A h \in Goroutines \ {g} : frame[h].own # frame[g].own
                /\ ics[frame[g].own] = shadow[g]
                /\ last[g].alone)
    /\ [][\A g \in Goroutines :
            (Invoking(g) /\ pc'[g] = "idle") =>
                LET o == InvokeOutcome(shadow[g], emods'[frame[g].i].mem,
                                       frame'[g].err, frame'[g].status, frame[g].operation)
                IN  result'[g].resp = o.resp /\ result'[g].err = o.err
         ]_vars

\* Two Invokes inside their guests at once, on different instances, with
\* different requests, one of which had a handler reply stored.
C10_Witness ==
    \E g, h \in Goroutines :
        /\ g # h /\ InGuest(g) /\ InGuest(h) /\ frame[g].i # frame[h].i
        /\ ics[frame[g].own].guestReq # ics[frame[h].own].guestReq
        /\ ~ics[frame[g].own].hostResp.isNil /\ ics[frame[h].own].hostResp.isNil
        /\ ~ics[frame[g].own].guestResp.isNil

\* The engine module n belongs to an Instantiate call still under way.
BeingMade(n) == \E g \in Goroutines : pc[g] = "start" /\ frame[g].i = n

\* C11: missing export.  When the guest does not export __guest_call, an
\* Instantiate whose engine instance was made returns no instance and the
\* error "module <name> didn't export function __guest_call", <name> being
\* the name it assigned, and has closed that engine instance; and whatever
\* way an Instantiate failed, no engine instance is live that is neither
\* being made nor held by a returned Instance.
C11_MissingExport ==
    /\ [](\A n \in InstNums :
            emods[n].state = "live" => BeingMade(n) \/ instances[n].made)
    /\ [][\A g \in Goroutines :
            (/\ pc[g] = "start" /\ pc'[g] = "idle" /\ ~scenario.guest.exports
             /\ emods[frame[g].i].state = "live")
            => /\ result'[g].api = "Instantiate" /\ result'[g].inst = 0
               /\ result'[g].err = Errorf("module ", Decimal(frame[g].i),
                                          " didn't export function __guest_call")
               /\ emods'[frame[g].i].state = "closed"
               /\ instances' = instances /\ returned' = returned
         ]_vars

\* The second Instantiate on a guest without __guest_call has failed, naming
\* "2", and the engine instances of both calls were closed by Instantiate.
C11_Witness ==
    \E g \in Goroutines :
        /\ ~scenario.guest.exports /\ pc[g] = "idle"
        /\ result[g].api = "Instantiate" /\ result[g].inst = 0
        /\ result[g].err = Errorf("module ", Decimal(2),
                                  " didn't export function __guest_call")
        /\ emods[1].closedBy = <<"Instantiate">> /\ emods[2].closedBy = <<"Instantiate">>
        /\ \A n \in InstNums : emods[n].state # "live" /\ ~instances[n].made

\* C12: module close invalidates its instances.  Once Module.Close has
\* returned, an Invoke on any Instance of the module, whether or not the
\* Instance was closed itself, does not enter the guest and returns an error
\* and no response.
C12_ModuleCloseInvalidates ==
    [][\A g \in Goroutines :
        closedRet.module =>
            /\ (Calls(g) /\ result'[g].api = "Invoke")
                  => ~result'[g].err.isNil /\ result'[g].resp = NilSlice
            /\ pc[g] = "Invoke_call" =>
                  /\ pc'[g] \in {"Invoke_call", "idle"}
                  /\ pc'[g] = "idle" =>
                        /\ result'[g].api = "Invoke"
                        /\ ~result'[g].err.isNil /\ result'[g].resp = NilSlice
      ]_vars

\* The Module.Close call that tears the runtime down has returned.
TornDown == module.closed = 1 /\ module.runtime = "nil"

\* The same once the Module.Close call that closed the runtime has returned,
\* which is what the code gives: a second Close call returns at once, while
\* the first may not have closed the runtime yet.
C12_AfterTeardown ==
    [][\A g \in Goroutines :
        TornDown =>
            /\ (Calls(g) /\ result'[g].api = "Invoke")
                  => ~result'[g].err.isNil /\ result'[g].resp = NilSlice
            /\ pc[g] = "Invoke_call" =>
                  /\ pc'[g] \in {"Invoke_call", "idle"}
                  /\ pc'[g] = "idle" =>
                        /\ result'[g].api = "Invoke"
                        /\ ~result'[g].err.isNil /\ result'[g].resp = NilSlice
      ]_vars

\* After the teardown, an Invoke on an Instance that nobody closed came back
\* with the engine's failure.
C12_FailsAfterTeardown ==
    \E g \in Goroutines :
        /\ TornDown /\ pc[g] = "idle" /\ result[g].api = "Invoke"
        /\ instances[result[g].inst].made /\ instances[result[g].inst].closed = 0
        /\ result[g].inst \notin closedRet.insts
        /\ result[g].err = ErrorWrap("error invoking guest: ", "module closed")
        /\ result[g].resp = NilSlice

\* A Module.Close call has returned while the runtime is still live, and an
\* Invoke inside its guest has committed a response.
C12_InvokeAfterClose ==
    \E g \in Goroutines :
        /\ closedRet.module /\ rt.state = "live"
        /\ InGuest(g) /\ ~ics[frame[g].own].guestResp.isNil

\* The byte ranges the last import of g's guest was given: (ptr, len) pairs,
\* the lengths of the ranges to write being those of what is to be written.
RangesOf(g) ==
    LET l == last[g]
        ic == ics[frame[g].own]
        memv == emods[frame[g].i].mem
    IN  CASE l.fn = "__host_call" ->
                {<<l.a[1], l.a[2]>>, <<l.a[3], l.a[4]>>, <<l.a[5], l.a[6]>>, <<l.a[7], l.a[8]>>}
          [] l.fn \in {"__console_log", "__guest_response", "__guest_error"} ->
                {<<l.a[1], l.a[2]>>}
          [] l.fn = "__guest_request" ->
                {<<l.a[1], Len(ic.operation)>>, <<l.a[2], Len(Bytes(memv, ic.guestReq))>>}
          [] l.fn = "__host_response" -> {<<l.a[1], Len(Bytes(memv, ic.hostResp))>>}
          [] l.fn = "__host_error" -> {<<l.a[1], Len(ic.hostErr.text)>>}
          [] OTHER -> {}

\* The last import of g's guest had something to transfer: all have, but
\* __host_call without a handler and __console_log without a logger.
Transfers(g) ==
    /\ last[g].fn = "__host_call" => wapcHost.callHandler
    /\ last[g].fn = "__console_log" => wapcHost.logger

\* The guest of g's Invoke goes on after an import that had a transfer to
\* make and was given a range outside its memory.
WentOnOutOfBounds(g) ==
    /\ InGuest(g) /\ last[g].bound /\ ~last[g].panic /\ Transfers(g)
    /\ \E r \in RangesOf(g) : ~InBounds(r[1], r[2])

\* C13: out-of-bounds memory is fatal.  No import called during an Invoke
\* with a byte range that is not wholly inside the guest's memory, to read
\* or to write, completes: the guest call ends there.
C13_OutOfBoundsFatal ==
    \A g \in Goroutines : ~WentOnOutOfBounds(g)

\* The part the code gives: the imports that read guest memory do not
\* complete out of bounds; only the three that write it do.
C13_ReadsFatal ==
    \A g \in Goroutines :
        WentOnOutOfBounds(g) =>
            last[g].fn \in {"__guest_request", "__host_response", "__host_error"}

\* __guest_request has completed for a two-byte payload and a pointer one
\* byte before the end of memory: the operation name was written, the payload
\* was not, and the guest goes on.
C13_RequestDropped ==
    \E g \in Goroutines :
        /\ InGuest(g) /\ last[g].fn = "__guest_request" /\ ~last[g].panic
        /\ last[g].a[2] = MemSize - 1 /\ frame[g].payload.b = <<0, 1>>
        /\ frame[g].operation = <<1>> /\ last[g].a[1] = 0 /\ last[g].wrote
        /\ emods[frame[g].i].mem[0] = 1 /\ emods[frame[g].i].mem[MemSize - 1] = 0

\* C14: cleanup when New fails.  When New fails after the runtime factory
\* succeeded (registering the wapc imports or compiling the guest failed),
\* it has closed the runtime it made, once, when it returns its error; when
\* the factory fails, New returns the error with no runtime, no Module and
\* nothing closed; when nothing fails the runtime is live.
C14_NewFailureCleanup ==
    [][\A g \in Goroutines :
        (rt.state = "none" /\ result'[g] # result[g] /\ result'[g].api = "New") =>
            CASE result'[g].err = NoError ->
                    rt' = [state |-> "live", closedBy |-> <<>>]
              [] result'[g].err = ErrorConst("newRuntime") ->
                    /\ rt' = [state |-> "failed", closedBy |-> <<>>]
                    /\ ~result'[g].mod /\ module' = module /\ emods' = emods
              [] OTHER ->
                    /\ result'[g].err \in {ErrorConst("instantiateWapcHost"),
                                           ErrorConst("CompileModule")}
                    /\ rt' = [state |-> "closed", closedBy |-> <<"New">>]
      ]_vars

\* New has failed to compile the guest and has closed the runtime once.
C14_Witness ==
    \E g \in Goroutines :
        /\ pc[g] = "idle" /\ result[g].api = "New"
        /\ result[g].err = ErrorConst("CompileModule")
        /\ rt = [state |-> "closed", closedBy |-> <<"New">>]
        /\ ~module.compiled

\* C15: most-recent host-call result.  Inside an Invoke with a handler, the
\* host response and host error slots are those the handler's latest call
\* returned (both nil before any call), whatever earlier calls returned:
\* __host_error_len returns the length of that error's text, 0 for none,
\* and __host_error then writes nothing; __host_response_len returns the
\* length of that response, 0 for none, which is the number of bytes
\* __host_response writes at a pointer they fit at.
C15_MostRecentHostCall ==
    \A g \in Goroutines :
        (InGuest(g) /\ wapcHost.callHandler) =>
            LET ic == ics[frame[g].own]
                l == last[g]
                memv == emods[frame[g].i].mem
                resp == handled[g].last.resp
                err == handled[g].last.err
            IN  /\ ic.hostResp = resp /\ ic.hostErr = err
                /\ l.fn = "__host_error_len" =>
                      l.ret = IF err.isNil THEN 0 ELSE Len(err.text)
                /\ (l.fn = "__host_error" /\ err.isNil) => ~l.wrote
                /\ l.fn = "__host_response_len" =>
                      l.ret = IF resp.isNil THEN 0 ELSE Len(resp.b)
                /\ (l.fn = "__host_response" /\ resp.isNil) => ~l.wrote
                /\ (l.fn = "__host_response" /\ ~resp.isNil /\ InBounds(l.a[1], Len(resp.b)))
                      => MemBytes(memv, l.a[1], Len(resp.b)) = resp.b

\* After a handler call that failed and one that succeeded with a two-byte
\* response, the guest asked for the length of the host error and got 0.
C15_Witness ==
    \E g \in Goroutines :
        /\ InGuest(g) /\ handled[g].n = 2
        /\ ~handled[g].prev.err.isNil /\ handled[g].prev.err.text # <<>>
        /\ handled[g].last.err.isNil /\ handled[g].last.resp = Slice(<<0, 1>>)
        /\ last[g].fn = "__host_error_len" /\ last[g].ret = 0
        /\ ics[frame[g].own].hostErr = NilError

\* The invokeContext an Invoke with g's arguments starts from.
Fresh(g) ==
    [operation |-> frame[g].operation, guestReq |-> frame[g].payload,
     guestResp |-> NilSlice, guestErr |-> <<>>, hostResp |-> NilSlice, hostErr |-> NilError]

\* C16: fresh context per Invoke.  Whatever Invokes came before on the
\* instance, an Invoke calls __guest_call, and the guest starts, with an
\* invokeContext of its own whose operation and request are the Invoke's
\* arguments and whose response, guest error, host response and host error
\* are unset; operation and request then stay those arguments.
C16_FreshContext ==
    /\ [](\A g \in Goroutines :
            /\ pc[g] = "Invoke_call" =>
                  /\ ics[frame[g].own] = Fresh(g)
                  /\ fromInvokeContext(ctx[g]) = frame[g].own
            /\ InGuest(g) =>
                  /\ ics[frame[g].own].operation = frame[g].operation
                  /\ ics[frame[g].own].guestReq = frame[g].payload)
    /\ [][\A g \in Goroutines :
            (pc[g] = "Invoke_call" /\ pc'[g] = "guest") =>
                /\ frame'[g] = frame[g] /\ ics'[frame[g].own] = Fresh(g)
                /\ fromInvokeContext(ctx'[g]) = frame[g].own
         ]_vars

\* The guest of an Invoke is about to run its first step with a fresh
\* invokeContext, on an instance whose previous Invoke ended with a slot of
\* its invokeContext set.
C16_Witness ==
    \E g \in Goroutines :
        /\ InGuest(g) /\ instances[frame[g].i].dirty /\ last[g] = NoLast
        /\ frame[g].operation # <<>>
        /\ ics[frame[g].own] = Fresh(g)

\* C17: engine failure takes precedence.  When the engine's call of
\* __guest_call fails (the module instance is closed, the guest traps, or an
\* import panicked), Invoke returns no response and the error wrapping the
\* engine's cause, whatever response or error text the guest had set.
C17_EngineFailureFirst ==
    [][\A g \in Goroutines :
        (Invoking(g) /\ pc'[g] = "idle" /\ frame'[g].err # "") =>
            /\ result'[g].api = "Invoke"
            /\ result'[g].resp = NilSlice
            /\ result'[g].err = ErrorWrap("error invoking guest: ", frame'[g].err)
      ]_vars

\* An Invoke whose guest reported an error text and then had an import
\* panic: the engine's failure is what Invoke returned.
C17_Witness ==
    \E g \in Goroutines :
        /\ Returned(g) /\ frame[g].err = "panic"
        /\ reported[g].called /\ reported[g].text # <<>>
        /\ result[g].resp = NilSlice
        /\ result[g].err = ErrorWrap("error invoking guest: ", "panic")

\* C18: module validity.  For the Module New handed back, in every state,
\* closed = 0 implies that its runtime is live, its runtime handle is in
\* place and its compiled guest is present; and closed only ever changes
\* from 0 to 1.
C18_ModuleValidity ==
    /\ []((module.made /\ module.closed = 0) =>
            rt.state = "live" /\ module.runtime = "r" /\ module.compiled)
    /\ [][module'.closed # module.closed => module.closed = 0 /\ module'.closed = 1]_vars

\* New returned its Module without an error.
NewSucceeded == module.made /\ \A k \in DOMAIN rt.closedBy : rt.closedBy[k] # "New"

\* The same for the Module of a New that returned no error, which is what
\* the code gives.
C18_ValidAfterSuccess ==
    /\ []((NewSucceeded /\ module.closed = 0) =>
            rt.state = "live" /\ module.runtime = "r" /\ module.compiled)
    /\ [][module'.closed # module.closed => module.closed = 0 /\ module'.closed = 1]_vars

\* The Module that New handed back with its compile error has closed = 0
\* and a closed runtime; Instantiate got past the closed check on it and
\* failed in the engine.
C18_InvalidModule ==
    \E g \in Goroutines :
        /\ module.made /\ module.closed = 0 /\ ~module.compiled
        /\ rt = [state |-> "closed", closedBy |-> <<"New">>]
        /\ pc[g] = "idle" /\ result[g].api = "Instantiate"
        /\ result[g].err = ErrorConst("InstantiateModule")
\* Instantiate calls that are past the closed check of line 362.
PastCheck == {g \in Goroutines : pc[g] \in {"Instantiate_add", "Instantiate_engine", "start"}}

\* C19 (Close/Instantiate race outcome): whatever a concurrent Module.Close
\* does, an Instantiate that passed the closed check ends its call of the
\* engine by going on with the instance or by returning an error, and never
\* by using the runtime handle after Close cleared it; and the instance
\* counter never goes down nor gives the same number twice.
C19_CloseInstantiateRace ==
    /\ [][\A g \in PastCheck :
            /\ pc'[g] \in {"Instantiate_add", "Instantiate_engine", "start", "idle"}
            /\ pc'[g] = "idle" =>
                  /\ result'[g].api = "Instantiate"
                  /\ (result'[g].inst # 0) # ~result'[g].err.isNil]_vars
    /\ [][module'.instanceCounter >= module.instanceCounter]_vars
    /\ [](\A g, h \in Goroutines :
            g # h /\ {pc[g], pc[h]} \subseteq {"Instantiate_engine", "start"}
                => frame[g].i # frame[h].i)

\* The instance counter alone: every Instantiate past the check adds one, the
\* number it gets is above every number given before, and nothing else
\* changes the counter.
C19_CounterNeverReused ==
    /\ [][\/ module'.instanceCounter = module.instanceCounter
          \/ /\ module'.instanceCounter = module.instanceCounter + 1
             /\ \E g \in Goroutines :
                   /\ pc[g] = "Instantiate_add" /\ pc'[g] = "Instantiate_engine"
                   /\ frame'[g].i = module'.instanceCounter]_vars
    /\ [](\A g \in Goroutines :
            pc[g] \in {"Instantiate_engine", "start"} =>
                /\ frame[g].i \in 1..module.instanceCounter
                /\ ~instances[frame[g].i].made
                /\ \A h \in Goroutines \ {g} :
                      pc[h] \in {"Instantiate_engine", "start"} => frame[h].i # frame[g].i)

\* An Instantiate passed the check, Module.Close ran to its end and has
\* returned, and the Instantiate then called InstantiateModule on the nil
\* handle: the call never returns to its caller.
C19_NilHandleUsed ==
    \E g, h \in Goroutines :
        /\ pc[g] = "panic" /\ frame[g].i = module.instanceCounter
        /\ module.closed = 1 /\ module.runtime = "nil"
        /\ pc[h] = "idle" /\ result[h].api = "Module.Close" /\ result[h].err.isNil
        /\ result[g] = NoResult

\* Goroutine g executes the closed check of an Invoke (line 411) in this step.
InvokeChecks(g) ==
    /\ pc[g] = "idle"
    /\ pc'[g] = "Invoke_call" \/ (result'[g].api = "Invoke" /\ result'[g] # result[g])

\* What Invoke returns from ic and status when the engine reported no failure.
NormalOutcome(res, ic, memv, status, operation) ==
    IF ic.guestErr # <<>>
    THEN res.resp = NilSlice /\ res.err = ErrorsNew(ic.guestErr)
    ELSE IF status = 1
    THEN /\ res.err = NoError
         /\ res.resp = IF ic.guestResp.isNil THEN NilSlice
                        ELSE Slice(Bytes(memv, ic.guestResp))
    ELSE /\ res.resp = NilSlice
         /\ res.err = Errorf("call to ", Quoted(operation), " was unsuccessful")

\* C20 (Close/Invoke safety on one instance): a Close that returned has made
\* the 0-to-1 transition of the instance's flag.  An Invoke that executes
\* its closed check after that transition returns the closed-instance error
\* in that step: no invokeContext is made or bound, the guest does not run
\* and the handler is not reached.  An Invoke that executed its check before
\* the transition goes on to the engine, and returns either its normal
\* outcome or the error wrapping an engine failure, which is "module closed"
\* only if the instance's engine module has been closed.
C20_CloseInvokeSafety ==
    /\ [](\A i \in closedRet.insts : instances[i].closed = 1)
    /\ [][\A g \in Goroutines :
            /\ InvokeChecks(g) =>
                  IF instances[frame'[g].i].closed # 0
                  THEN /\ pc'[g] = "idle"
                       /\ result'[g].resp = NilSlice
                       /\ result'[g].err =
                             ErrorConst("error invoking guest with closed instance")
                       /\ frame'[g].own = NilPtr
                       /\ UNCHANGED <<ics, ctx, handled, sites, emods, shadow>>
                  ELSE /\ pc'[g] = "Invoke_call"
                       /\ frame'[g].own # NilPtr
                       /\ fromInvokeContext(ctx'[g]) = frame'[g].own
            /\ (Invoking(g) /\ pc'[g] = "idle") =>
                  LET f == frame[g]
                      memv == emods[instances[f.i].m].mem
                  IN  /\ result'[g].api = "Invoke" /\ result'[g].inst = f.i
                      /\ IF frame'[g].err = ""
                         THEN NormalOutcome(result'[g], ics[f.own], memv,
                                            frame'[g].status, f.operation)
                         ELSE /\ result'[g].resp = NilSlice
                              /\ result'[g].err =
                                    ErrorWrap("error invoking guest: ", frame'[g].err)
                              /\ frame'[g].err \in {"module closed", "trap", "panic"}
                              /\ frame'[g].err = "module closed" =>
                                    emods[instances[f.i].m].state = "closed"
          ]_vars

\* Both halves on one instance of an open module: an Invoke passed its check,
\* Instance.Close then made the transition and closed the engine module, and
\* the Invoke returned the engine's failure; the next Invoke on the instance
\* made its check after the transition and got the closed-instance error.
C20_Witness ==
    \E g, h \in Goroutines :
        /\ g # h /\ module.closed = 0
        /\ Returned(g) /\ Returned(h) /\ result[g].inst = result[h].inst
        /\ instances[result[g].inst].closed = 1
        /\ frame[h].err = "module closed"
        /\ result[h].err = ErrorWrap("error invoking guest: ", "module closed")
        /\ result[g].err = ErrorConst("error invoking guest with closed instance")
        /\ result[g].resp = NilSlice /\ result[h].resp = NilSlice

\* An Invoke that was running the guest when Instance.Close ran and returned,
\* in the case in which the engine lets the call end normally: it returned
\* its normal outcome, here the guest's response.
C20_ClosedWhileRunning ==
    \E g \in Goroutines :
        /\ Returned(g) /\ result[g].inst \in closedRet.insts
        /\ frame[g].err = "" /\ result[g].err = NoError /\ ~result[g].resp.isNil

====
